---- MODULE Spec2Model ----
(***************************************************************************)
(* Model of the caving rope-timing repository:                             *)
(*   src/ascent_time.py      ascent_time                                   *)
(*   src/optimum_rebelay.py  optimum_rebelay, optimum_rebelay_both_ways    *)
(*   src/rebelay_plots.py    plot_optimum_rebelay_length_both_ways         *)
(*                                                                         *)
(* One behaviour is one call of one of these functions: Init draws the     *)
(* function and its arguments, the actions are the statements of its body. *)
(*                                                                         *)
(* Numbers are exact rationals <<numerator, denominator>>.  Every Python   *)
(* float operation is followed by Rnd, rounding to the nearest binary      *)
(* float of MantBits significant bits, ties to even: IEEE-754 doubles with *)
(* the 53-bit significand scaled down to MantBits.  Exponent range is not  *)
(* modelled (no overflow, no subnormals).                                  *)
(***************************************************************************)
EXTENDS Integers, Sequences, FiniteSets, TLC

\* Significand width of the modelled binary float (53 in CPython doubles).
MantBits == 7
\* Largest group size drawn for n_cavers / max_cavers.
MaxCavers == 6
\* Largest n_rebelays drawn for a direct call of ascent_time.
MaxRebelayCount == 4
\* Largest max_number_rebelays drawn for the optimizers (100 by default in the source).
MaxSweep == 5
\* Number of dense evaluation points of the fitted curve (1000 in the source).
GridNum == 4

\* interp1d(kind='cubic') needs at least order + 1 = 4 points.
FitMinPoints == 4
\* The literals of the combined call in plot_optimum_rebelay_length_both_ways.
BothWaysTransitionTime == 2
BothWaysMaxRebelays == 100

None == <<>>

-----------------------------------------------------------------------------
(* Exact rational arithmetic *)

Abs(x) == IF x < 0 THEN -x ELSE x

RECURSIVE GCD(_, _)
GCD(a, b) == IF b = 0 THEN a ELSE GCD(b, a % b)

RECURSIVE Pow2(_)
Pow2(k) == IF k = 0 THEN 1 ELSE 2 * Pow2(k - 1)

Rat(n, d) ==
    LET g == GCD(Abs(n), Abs(d))
        s == IF d < 0 THEN -1 ELSE 1
    IN  IF n = 0 THEN <<0, 1>> ELSE <<s * (n \div g), s * (d \div g)>>

R(k) == <<k, 1>>

RNeg(a) == <<-a[1], a[2]>>

RAdd(a, b) ==
    LET g == GCD(a[2], b[2])
    IN  Rat(a[1] * (b[2] \div g) + b[1] * (a[2] \div g), (a[2] \div g) * b[2])

RSub(a, b) == RAdd(a, RNeg(b))

RMul(a, b) ==
    LET g1 == GCD(Abs(a[1]), b[2])
        g2 == GCD(Abs(b[1]), a[2])
    IN  IF a[1] = 0 \/ b[1] = 0 THEN <<0, 1>>
        ELSE Rat((a[1] \div g1) * (b[1] \div g2), (a[2] \div g2) * (b[2] \div g1))

RInv(a) == IF a[1] < 0 THEN <<-a[2], -a[1]>> ELSE <<a[2], a[1]>>

RDiv(a, b) == RMul(a, RInv(b))

RLt(a, b) ==
    LET g == GCD(a[2], b[2])
    IN  a[1] * (b[2] \div g) < b[1] * (a[2] \div g)

RLe(a, b) == ~RLt(b, a)

RAbs(a) == <<Abs(a[1]), a[2]>>

-----------------------------------------------------------------------------
(* Python float arithmetic: the exact result rounded to MantBits bits *)

\* n/d > 0 scaled by powers of two until 2^(MantBits-1) <= n/d < 2^MantBits.
RECURSIVE FloatNorm(_, _, _)
FloatNorm(n, d, e) ==
    IF n >= Pow2(MantBits) * d THEN FloatNorm(n, 2 * d, e + 1)
    ELSE IF n < Pow2(MantBits - 1) * d THEN FloatNorm(2 * n, d, e - 1)
    ELSE <<n, d, e>>

\* Round to nearest, ties to even.
Rnd(q) ==
    IF q[1] = 0 THEN q
    ELSE LET s == IF q[1] < 0 THEN -1 ELSE 1
             f == FloatNorm(Abs(q[1]), q[2], 0)
             m == f[1] \div f[2]
             r == f[1] % f[2]
             up == 2 * r > f[2] \/ (2 * r = f[2] /\ m % 2 = 1)
             mm == IF up THEN m + 1 ELSE m
         IN  IF f[3] >= 0 THEN Rat(s * mm * Pow2(f[3]), 1)
             ELSE Rat(s * mm, Pow2(-f[3]))

FAdd(a, b) == Rnd(RAdd(a, b))
FMul(a, b) == Rnd(RMul(a, b))
FDiv(a, b) == Rnd(RDiv(a, b))

-----------------------------------------------------------------------------
(* src/ascent_time.py *)

\* A Python value passed as n_cavers: an int, or a non-int (float) value.
PyInt(k) == [int |-> TRUE, val |-> R(k)]
PyFloat(q) == [int |-> FALSE, val |-> q]

\* Mutant: the isinstance test left out.
InvalidCaversNoTypeCheck(n_cavers) == RLt(n_cavers.val, R(1))

\* line 16: not isinstance(n_cavers, int) or n_cavers < 1
InvalidCavers(n_cavers) == ~n_cavers.int \/ RLt(n_cavers.val, R(1))

\* lines 20-23
SectionLength(rope_length, n_rebelays) ==
    IF n_rebelays > 0 THEN FDiv(rope_length, R(n_rebelays + 1)) ELSE rope_length

\* line 26
SectionTime(sl, ascent_speed, transition_time) ==
    FAdd(FDiv(sl, ascent_speed), transition_time)

\* Mutant: the leader climbs n_rebelays sections instead of n_rebelays + 1.
LeaderTimeOffByOne(st, n_rebelays) == FMul(st, R(n_rebelays))

\* line 29
LeaderTime(st, n_rebelays) == FMul(st, R(n_rebelays + 1))

\* Mutant: the followers' sections subtracted instead of added.
TotalTimeSubtract(lt, st, n_cavers) ==
    FAdd(lt, RNeg(FMul(st, RSub(n_cavers.val, R(1)))))

\* line 32
TotalTime(lt, st, n_cavers) == FAdd(lt, FMul(st, RSub(n_cavers.val, R(1))))

\* The whole call: [raised |-> TRUE] or [raised |-> FALSE, value |-> total_time].
ascent_time(rope_length, n_cavers, n_rebelays, ascent_speed, transition_time) ==
    IF InvalidCavers(n_cavers) THEN [raised |-> TRUE, value |-> None]
    ELSE LET sl == SectionLength(rope_length, n_rebelays)
             st == SectionTime(sl, ascent_speed, transition_time)
             lt == LeaderTime(st, n_rebelays)
         IN  [raised |-> FALSE, value |-> TotalTime(lt, st, n_cavers)]

-----------------------------------------------------------------------------
(* Library calls made by src/optimum_rebelay.py.  They are not code of the  *)
(* repository; they are modelled by what their documentation says they do. *)

\* Sequence s with x inserted before the first element whose key exceeds x's.
RECURSIVE InsertByX(_, _)
InsertByX(s, p) ==
    IF s = <<>> THEN <<p>>
    ELSE IF RLt(p[1], s[1][1]) THEN <<p>> \o s
    ELSE <<s[1]>> \o InsertByX(Tail(s), p)

\* Mutant: the points taken as already sorted (assume_sorted=True).
SortByXAssumeSorted(ps) == ps

\* interp1d's default assume_sorted=False: the points are sorted by x,
\* stably, each y carried with its x.
RECURSIVE SortByX(_)
SortByX(ps) ==
    IF ps = <<>> THEN <<>>
    ELSE InsertByX(SortByX(SubSeq(ps, 1, Len(ps) - 1)), ps[Len(ps)])

Pairs(xs, ys) == [i \in 1 .. Len(xs) |-> <<xs[i], ys[i]>>] \o <<>>

\* Gauss-Jordan elimination on the N x (N+1) matrix A, from column k on.
RECURSIVE Eliminate(_, _, _)
Eliminate(A, k, N) ==
    IF k > N THEN A
    ELSE LET p == CHOOSE r \in k .. N :
                      /\ A[r][k][1] # 0
                      /\ \A q \in k .. (r - 1) : A[q][k][1] = 0
             B == [r \in 1 .. N |-> IF r = k THEN A[p] ELSE IF r = p THEN A[k] ELSE A[r]] \o <<>>
             rowk == [c \in 1 .. N + 1 |-> RDiv(B[k][c], B[k][k])] \o <<>>
             C == [r \in 1 .. N |->
                      IF r = k THEN rowk
                      ELSE IF B[r][k][1] = 0 THEN B[r]
                      ELSE [c \in 1 .. N + 1 |->
                               RSub(B[r][c], RMul(B[r][k], rowk[c]))] \o <<>>] \o <<>>
         IN  Eliminate(C, k + 1, N)

\* Second derivatives at the knots of the cubic spline through the points
\* (x ascending) with not-a-knot end conditions: interp1d(kind='cubic').
SplineMoments(x, y) ==
    LET N == Len(x)
        h == [i \in 1 .. N - 1 |-> RSub(x[i + 1], x[i])] \o <<>>
        d == [i \in 1 .. N - 1 |-> RDiv(RSub(y[i + 1], y[i]), h[i])] \o <<>>
        Z == R(0)
        row(i) ==
            [c \in 1 .. N + 1 |->
                IF i = 1 THEN
                    CASE c = 1 -> h[2]
                      [] c = 2 -> RNeg(RAdd(h[1], h[2]))
                      [] c = 3 -> h[1]
                      [] OTHER -> Z
                ELSE IF i = N THEN
                    CASE c = N - 2 -> h[N - 1]
                      [] c = N - 1 -> RNeg(RAdd(h[N - 2], h[N - 1]))
                      [] c = N -> h[N - 2]
                      [] OTHER -> Z
                ELSE
                    CASE c = i - 1 -> h[i - 1]
                      [] c = i -> RMul(R(2), RAdd(h[i - 1], h[i]))
                      [] c = i + 1 -> h[i]
                      [] c = N + 1 -> RMul(R(6), RSub(d[i], d[i - 1]))
                      [] OTHER -> Z] \o <<>>
        A == [i \in 1 .. N |-> row(i)] \o <<>>
        S == Eliminate(A, 1, N)
    IN  [i \in 1 .. N |-> S[i][N + 1]] \o <<>>

\* interp1d(x, y, kind='cubic'): fewer than 4 points raise ValueError inside
\* the library; otherwise the fitted curve (sorted points and moments).
interp1d(xs, ys) ==
    IF Len(xs) < FitMinPoints THEN [raised |-> TRUE, x |-> <<>>, y |-> <<>>, M |-> <<>>]
    ELSE LET ps == SortByX(Pairs(xs, ys))
             x == [i \in 1 .. Len(ps) |-> ps[i][1]] \o <<>>
             y == [i \in 1 .. Len(ps) |-> ps[i][2]] \o <<>>
         IN  [raised |-> FALSE, x |-> x, y |-> y, M |-> SplineMoments(x, y)]

\* The fitted curve evaluated at g, x[1] <= g <= x[N].
SplineEval(f, g) ==
    LET N == Len(f.x)
        i == CHOOSE k \in 1 .. N - 1 :
                 /\ (k = N - 1 \/ RLe(g, f.x[k + 1]))
                 /\ \A q \in 1 .. (k - 1) : RLt(f.x[q + 1], g)
        hi == RSub(f.x[i + 1], f.x[i])
        a == RSub(f.x[i + 1], g)
        b == RSub(g, f.x[i])
        h6 == RMul(R(6), hi)
        t1 == RDiv(RMul(f.M[i], RMul(a, RMul(a, a))), h6)
        t2 == RDiv(RMul(f.M[i + 1], RMul(b, RMul(b, b))), h6)
        t3 == RMul(RSub(RDiv(f.y[i], hi), RDiv(RMul(f.M[i], hi), R(6))), a)
        t4 == RMul(RSub(RDiv(f.y[i + 1], hi), RDiv(RMul(f.M[i + 1], hi), R(6))), b)
    IN  RAdd(RAdd(t1, t2), RAdd(t3, t4))

RECURSIVE SeqMin(_)
SeqMin(s) ==
    IF Len(s) = 1 THEN s[1]
    ELSE LET m == SeqMin(Tail(s)) IN IF RLe(s[1], m) THEN s[1] ELSE m

RECURSIVE SeqMax(_)
SeqMax(s) ==
    IF Len(s) = 1 THEN s[1]
    ELSE LET m == SeqMax(Tail(s)) IN IF RLe(m, s[1]) THEN s[1] ELSE m

\* np.linspace(start, stop, num, endpoint=True): start + j*step in float
\* arithmetic, the last point set to stop.
linspace(start, stop, num) ==
    LET step == FDiv(FAdd(stop, RNeg(start)), R(num - 1))
    IN  [j \in 1 .. num |->
            IF j = num THEN stop ELSE FAdd(FMul(R(j - 1), step), start)] \o <<>>

\* np.argmin: the first index of the smallest value.
argmin(ys) ==
    CHOOSE j \in 1 .. Len(ys) :
        /\ \A k \in 1 .. Len(ys) : RLe(ys[j], ys[k])
        /\ \A k \in 1 .. (j - 1) : RLt(ys[j], ys[k])

\* round(x, 1): the nearest multiple of 1/10, ties to even, as a float.
round1(q) ==
    LET t == RMul(RAbs(q), R(10))
        k == t[1] \div t[2]
        r == t[1] % t[2]
        up == 2 * r > t[2] \/ (2 * r = t[2] /\ k % 2 = 1)
        kk == IF up THEN k + 1 ELSE k
        s == IF q[1] < 0 THEN -1 ELSE 1
    IN  Rnd(Rat(s * kk, 10))

-----------------------------------------------------------------------------
(* src/optimum_rebelay.py *)

\* Mutant: the sweep starts at one rebelay, range(1, max_number_rebelays + 1).
n_rebelays_range_from_one(max_number_rebelays) ==
    [i \in 1 .. (IF max_number_rebelays > 0 THEN max_number_rebelays ELSE 0) |-> i] \o <<>>

\* line 19 / 55: range(0, max_number_rebelays) as a sequence.
n_rebelays_range(max_number_rebelays) ==
    [i \in 1 .. (IF max_number_rebelays > 0 THEN max_number_rebelays ELSE 0) |-> i - 1] \o <<>>

\* line 25 / 61
RebelayLength(rope_length, n_rebelays) == FDiv(rope_length, R(n_rebelays + 1))

\* line 27: the sample of the single-direction sweep.
SampleOneWay(a, n_rebelays) ==
    ascent_time(a.rope_length, a.n_cavers, n_rebelays, a.ascent_speed, a.transition_time)

\* Mutant: time_down computed at the default descent speed, not the argument.
SampleBothWaysDefaultDescent(a, n_rebelays) ==
    LET time_up == ascent_time(a.rope_length, a.n_cavers, n_rebelays,
                               a.ascent_speed, a.transition_time)
        time_down == ascent_time(a.rope_length, a.n_cavers, n_rebelays,
                                 R(70), a.transition_time)
    IN  IF time_up.raised \/ time_down.raised THEN [raised |-> TRUE, value |-> None]
        ELSE [raised |-> FALSE, value |-> FAdd(time_up.value, time_down.value)]

\* lines 63-66: time_up + time_down.
SampleBothWays(a, n_rebelays) ==
    LET time_up == ascent_time(a.rope_length, a.n_cavers, n_rebelays,
                               a.ascent_speed, a.transition_time)
        time_down == ascent_time(a.rope_length, a.n_cavers, n_rebelays,
                                 a.descent_speed, a.transition_time)
    IN  IF time_up.raised \/ time_down.raised THEN [raised |-> TRUE, value |-> None]
        ELSE [raised |-> FALSE, value |-> FAdd(time_up.value, time_down.value)]

Sample(f, a, n_rebelays) ==
    IF f = "optimum_rebelay" THEN SampleOneWay(a, n_rebelays)
    ELSE SampleBothWays(a, n_rebelays)

\* Mutant: the minimum time returned instead of the length it is reached at.
OptimumLengthReturnsTime(xs, ys) == round1(ys[argmin(ys)])

\* line 34 / 72: round(x_new[np.argmin(y_new)], 1)
OptimumLength(xs, ys) == round1(xs[argmin(ys)])

\* A whole optimizer call as a function of its arguments:
\* [raised |-> TRUE, by |-> the raising function] or [raised |-> FALSE, value |-> length].
OptimizerCall(fname, a) ==
    LET rng == n_rebelays_range(a.max_number_rebelays)
        xs == [i \in 1 .. Len(rng) |-> RebelayLength(a.rope_length, rng[i])] \o <<>>
        ts == [i \in 1 .. Len(rng) |-> Sample(fname, a, rng[i])] \o <<>>
        ys == [i \in 1 .. Len(rng) |-> ts[i].value] \o <<>>
        fit == interp1d(xs, ys)
        xn == linspace(SeqMin(xs), SeqMax(xs), GridNum)
        yn == [j \in 1 .. Len(xn) |-> SplineEval(fit, xn[j])] \o <<>>
    IN  IF \E i \in 1 .. Len(rng) : ts[i].raised
        THEN [raised |-> TRUE, by |-> "ascent_time", value |-> None]
        ELSE IF fit.raised THEN [raised |-> TRUE, by |-> "interp1d", value |-> None]
        ELSE [raised |-> FALSE, by |-> "", value |-> OptimumLength(xn, yn)]

optimum_rebelay(a) == OptimizerCall("optimum_rebelay", a)
optimum_rebelay_both_ways(a) == OptimizerCall("optimum_rebelay_both_ways", a)

-----------------------------------------------------------------------------
(* src/rebelay_plots.py: plot_optimum_rebelay_length_both_ways *)

\* line 86 / 99 / 111: range(1, max_cavers + 1) as a sequence.
cavers_range(max_cavers) ==
    [i \in 1 .. (IF max_cavers > 0 THEN max_cavers ELSE 0) |-> i] \o <<>>

\* line 89: optimum_rebelay(rope_length, n_cavers, ascent_speed, transition_time, max_rebelays)
AscentCall(a, n_cavers) ==
    [fn |-> "optimum_rebelay", rope_length |-> a.rope_length, n_cavers |-> n_cavers,
     speed |-> <<a.ascent_speed>>, transition_time |-> a.transition_time,
     max_number_rebelays |-> a.max_rebelays]

\* line 102: optimum_rebelay_both_ways(rope_length, n_cavers, ascent_speed,
\*           descent_speed, transition_time=2, max_number_rebelays=100)
BothCall(a, n_cavers) ==
    [fn |-> "optimum_rebelay_both_ways", rope_length |-> a.rope_length,
     n_cavers |-> n_cavers, speed |-> <<a.ascent_speed, a.descent_speed>>,
     transition_time |-> R(BothWaysTransitionTime),
     max_number_rebelays |-> BothWaysMaxRebelays]

\* line 114: optimum_rebelay(rope_length, n_cavers, descent_speed, transition_time, max_rebelays)
DescentCall(a, n_cavers) ==
    [fn |-> "optimum_rebelay", rope_length |-> a.rope_length, n_cavers |-> n_cavers,
     speed |-> <<a.descent_speed>>, transition_time |-> a.transition_time,
     max_number_rebelays |-> a.max_rebelays]

\* An optimizer call made by the plot raises when its sweep hands interp1d
\* fewer than FitMinPoints samples (n_cavers comes from cavers_range, so
\* ascent_time accepts it).
CallRaises(call) == Len(n_rebelays_range(call.max_number_rebelays)) < FitMinPoints

-----------------------------------------------------------------------------
(* Inputs *)

\* Every number drawn is one the modelled float holds exactly.  The sweeps
\* draw rope lengths whose section lengths are exact as well, which keeps the
\* exact spline arithmetic within TLC's 32-bit integers.
RopeLengths == {R(1), R(60), R(100)}
SweepRopeLengths == {R(30), R(60)}
Speeds == {R(7), R(70)}
TransitionTimes == {R(-20), R(0), R(2)}
SweepTransitionTimes == {R(0), R(2)}
CaverValues ==
    {PyInt(k) : k \in -1 .. MaxCavers} \cup {PyFloat(<<5, 2>>), PyFloat(R(2))}
SweepCaverValues ==
    {PyInt(k) : k \in 0 .. MaxCavers} \cup {PyFloat(<<5, 2>>)}
Optimizers == {"optimum_rebelay", "optimum_rebelay_both_ways"}
PlotRopeLengths == {R(60), R(80)}
PlotTransitionTimes == {R(2), R(3)}
PlotMaxRebelays == {FitMinPoints - 1, MaxSweep, BothWaysMaxRebelays}

VARIABLES
    fn,               \* the function called
    args,             \* its arguments
    pc,               \* the statement about to run
    outcome,          \* "running", "returned", or the exception raised
    raised_by,        \* the function whose code raised it
    section_length, section_time, leader_time, total_time,  \* locals of ascent_time
    rebelay_lengths, ascent_times,   \* the optimizers' sample lists
    interp_calls,     \* the argument lists of each interp1d call made
    f, x_new, y_new, optimum_rebelay_length,
    optimum_rebelay_lengths,  \* the plot's current series: one entry per optimizer
                              \* call, held as the call whose result it is
    calls,            \* every optimizer call the plot has made
    scatter           \* the series handed to ax.scatter

at_vars == <<section_length, section_time, leader_time, total_time>>
or_vars == <<rebelay_lengths, ascent_times, interp_calls, f, x_new, y_new,
             optimum_rebelay_length>>
pl_vars == <<optimum_rebelay_lengths, calls, scatter>>
vars == <<fn, args, pc, outcome, raised_by, at_vars, or_vars, pl_vars>>

InitAscentTime ==
    /\ fn = "ascent_time"
    /\ args \in [rope_length : RopeLengths, n_cavers : CaverValues,
                 n_rebelays : 0 .. MaxRebelayCount, ascent_speed : Speeds,
                 transition_time : TransitionTimes]
    /\ pc = "check"

InitOptimumRebelay ==
    /\ fn = "optimum_rebelay"
    /\ args \in [rope_length : SweepRopeLengths, n_cavers : SweepCaverValues,
                 ascent_speed : Speeds, transition_time : SweepTransitionTimes,
                 max_number_rebelays : -1 .. MaxSweep]
    /\ pc = "sweep"

InitOptimumRebelayBothWays ==
    /\ fn = "optimum_rebelay_both_ways"
    /\ args \in [rope_length : SweepRopeLengths, n_cavers : SweepCaverValues,
                 ascent_speed : Speeds, descent_speed : Speeds,
                 transition_time : SweepTransitionTimes,
                 max_number_rebelays : -1 .. MaxSweep]
    /\ pc = "sweep"

InitPlot ==
    /\ fn = "plot_optimum_rebelay_length_both_ways"
    /\ args \in [rope_length : PlotRopeLengths, max_cavers : 0 .. MaxCavers,
                 ascent_speed : {R(7)}, descent_speed : {R(70)},
                 transition_time : PlotTransitionTimes, max_rebelays : PlotMaxRebelays]
    /\ pc = "ascent"

Init ==
    /\ \/ InitAscentTime
       \/ InitOptimumRebelay
       \/ InitOptimumRebelayBothWays
       \/ InitPlot
    /\ outcome = "running" /\ raised_by = ""
    /\ section_length = None /\ section_time = None
    /\ leader_time = None /\ total_time = None
    /\ rebelay_lengths = <<>> /\ ascent_times = <<>> /\ interp_calls = <<>>
    /\ f = None /\ x_new = None /\ y_new = None /\ optimum_rebelay_length = None
    /\ optimum_rebelay_lengths = <<>> /\ calls = <<>> /\ scatter = <<>>

\* lines 16-17
at_check ==
    /\ fn = "ascent_time" /\ pc = "check"
    /\ IF InvalidCavers(args.n_cavers)
       THEN pc' = "done" /\ outcome' = "ValueError" /\ raised_by' = "ascent_time"
       ELSE pc' = "section_length" /\ UNCHANGED <<outcome, raised_by>>
    /\ UNCHANGED <<fn, args, at_vars, or_vars, pl_vars>>

\* lines 20-23
at_section_length ==
    /\ fn = "ascent_time" /\ pc = "section_length"
    /\ section_length' = SectionLength(args.rope_length, args.n_rebelays)
    /\ pc' = "section_time"
    /\ UNCHANGED <<fn, args, outcome, raised_by, section_time, leader_time, total_time, or_vars, pl_vars>>

\* line 26
at_section_time ==
    /\ fn = "ascent_time" /\ pc = "section_time"
    /\ section_time' = SectionTime(section_length, args.ascent_speed, args.transition_time)
    /\ pc' = "leader_time"
    /\ UNCHANGED <<fn, args, outcome, raised_by, section_length, leader_time, total_time, or_vars, pl_vars>>

\* line 29
at_leader_time ==
    /\ fn = "ascent_time" /\ pc = "leader_time"
    /\ leader_time' = LeaderTime(section_time, args.n_rebelays)
    /\ pc' = "total_time"
    /\ UNCHANGED <<fn, args, outcome, raised_by, section_length, section_time, total_time, or_vars, pl_vars>>

\* lines 32-35
at_total_time ==
    /\ fn = "ascent_time" /\ pc = "total_time"
    /\ total_time' = TotalTime(leader_time, section_time, args.n_cavers)
    /\ pc' = "done" /\ outcome' = "returned"
    /\ UNCHANGED <<fn, args, raised_by, section_length, section_time, leader_time, or_vars, pl_vars>>

\* optimum_rebelay lines 24-28, optimum_rebelay_both_ways lines 60-66:
\* one iteration of the sweep; an exception of ascent_time ends the call.
or_sweep ==
    /\ fn \in Optimizers /\ pc = "sweep"
    /\ Len(rebelay_lengths) < Len(n_rebelays_range(args.max_number_rebelays))
    /\ LET n_rebelays == n_rebelays_range(args.max_number_rebelays)[Len(rebelay_lengths) + 1]
           time == Sample(fn, args, n_rebelays)
       IN  /\ rebelay_lengths' = Append(rebelay_lengths, RebelayLength(args.rope_length, n_rebelays))
           /\ IF time.raised
              THEN /\ pc' = "done" /\ outcome' = "ValueError" /\ raised_by' = "ascent_time"
                   /\ UNCHANGED ascent_times
              ELSE /\ ascent_times' = Append(ascent_times, time.value)
                   /\ UNCHANGED <<pc, outcome, raised_by>>
    /\ UNCHANGED <<fn, args, at_vars, interp_calls, f, x_new, y_new, optimum_rebelay_length, pl_vars>>

\* line 31 / 69: f = interp1d(rebelay_lengths, ascent_times, kind='cubic')
or_interp1d ==
    /\ fn \in Optimizers /\ pc = "sweep"
    /\ Len(rebelay_lengths) = Len(n_rebelays_range(args.max_number_rebelays))
    /\ interp_calls' = Append(interp_calls, [x |-> rebelay_lengths, y |-> ascent_times])
    /\ LET fit == interp1d(rebelay_lengths, ascent_times)
       IN  IF fit.raised
           THEN /\ pc' = "done" /\ outcome' = "ValueError" /\ raised_by' = "interp1d"
                /\ UNCHANGED f
           ELSE /\ f' = [x |-> fit.x, y |-> fit.y, M |-> fit.M]
                /\ pc' = "linspace"
                /\ UNCHANGED <<outcome, raised_by>>
    /\ UNCHANGED <<fn, args, at_vars, rebelay_lengths, ascent_times, x_new, y_new,
                   optimum_rebelay_length, pl_vars>>

\* line 32 / 70
or_linspace ==
    /\ fn \in Optimizers /\ pc = "linspace"
    /\ x_new' = linspace(SeqMin(rebelay_lengths), SeqMax(rebelay_lengths), GridNum)
    /\ pc' = "evaluate"
    /\ UNCHANGED <<fn, args, outcome, raised_by, at_vars, rebelay_lengths, ascent_times,
                   interp_calls, f, y_new, optimum_rebelay_length, pl_vars>>

\* line 33 / 71
or_evaluate ==
    /\ fn \in Optimizers /\ pc = "evaluate"
    /\ y_new' = [j \in 1 .. Len(x_new) |-> SplineEval(f, x_new[j])]
    /\ pc' = "argmin"
    /\ UNCHANGED <<fn, args, outcome, raised_by, at_vars, rebelay_lengths, ascent_times,
                   interp_calls, f, x_new, optimum_rebelay_length, pl_vars>>

\* lines 34-36 / 72-74
or_return ==
    /\ fn \in Optimizers /\ pc = "argmin"
    /\ optimum_rebelay_length' = OptimumLength(x_new, y_new)
    /\ pc' = "done" /\ outcome' = "returned"
    /\ UNCHANGED <<fn, args, raised_by, at_vars, rebelay_lengths, ascent_times,
                   interp_calls, f, x_new, y_new, pl_vars>>

\* One iteration of a plot loop: the optimizer call for the next n_cavers.
PlotIteration(call) ==
    /\ calls' = Append(calls, call)
    /\ IF CallRaises(call)
       THEN /\ pc' = "done" /\ outcome' = "ValueError" /\ raised_by' = "interp1d"
            /\ UNCHANGED optimum_rebelay_lengths
       ELSE /\ optimum_rebelay_lengths' = Append(optimum_rebelay_lengths, call)
            /\ UNCHANGED <<pc, outcome, raised_by>>
    /\ UNCHANGED <<fn, args, at_vars, or_vars, scatter>>

\* The statements after a plot loop: scatter the series, start the next one.
PlotScatter(label, next) ==
    /\ scatter' = Append(scatter, [label |-> label, x |-> cavers_range(args.max_cavers),
                                   y |-> optimum_rebelay_lengths])
    /\ optimum_rebelay_lengths' = <<>>
    /\ pc' = next
    /\ UNCHANGED <<fn, args, outcome, raised_by, at_vars, or_vars, calls>>

NextCavers == PyInt(cavers_range(args.max_cavers)[Len(optimum_rebelay_lengths) + 1])
LoopRunning == Len(optimum_rebelay_lengths) < Len(cavers_range(args.max_cavers))

\* lines 88-90
pl_ascent ==
    /\ fn = "plot_optimum_rebelay_length_both_ways" /\ pc = "ascent" /\ LoopRunning
    /\ PlotIteration(AscentCall(args, NextCavers))

\* lines 92-100
pl_ascent_scatter ==
    /\ fn = "plot_optimum_rebelay_length_both_ways" /\ pc = "ascent" /\ ~LoopRunning
    /\ PlotScatter("Ascent", "both")

\* lines 101-103
pl_both ==
    /\ fn = "plot_optimum_rebelay_length_both_ways" /\ pc = "both" /\ LoopRunning
    /\ PlotIteration(BothCall(args, NextCavers))

\* lines 105-112
pl_both_scatter ==
    /\ fn = "plot_optimum_rebelay_length_both_ways" /\ pc = "both" /\ ~LoopRunning
    /\ PlotScatter("Both", "descent")

\* lines 113-115
pl_descent ==
    /\ fn = "plot_optimum_rebelay_length_both_ways" /\ pc = "descent" /\ LoopRunning
    /\ PlotIteration(DescentCall(args, NextCavers))

\* lines 117-127
pl_descent_scatter ==
    /\ fn = "plot_optimum_rebelay_length_both_ways" /\ pc = "descent" /\ ~LoopRunning
    /\ scatter' = Append(scatter, [label |-> "Descent", x |-> cavers_range(args.max_cavers),
                                   y |-> optimum_rebelay_lengths])
    /\ pc' = "done" /\ outcome' = "returned"
    /\ UNCHANGED <<fn, args, raised_by, at_vars, or_vars, optimum_rebelay_lengths, calls>>

Next ==
    \/ at_check
    \/ at_section_length
    \/ at_section_time
    \/ at_leader_time
    \/ at_total_time
    \/ or_sweep
    \/ or_interp1d
    \/ or_linspace
    \/ or_evaluate
    \/ or_return
    \/ pl_ascent
    \/ pl_ascent_scatter
    \/ pl_both
    \/ pl_both_scatter
    \/ pl_descent
    \/ pl_descent_scatter

Spec == Init /\ [][Next]_vars

-----------------------------------------------------------------------------
(* Properties *)

Returned == pc = "done" /\ outcome = "returned"
NoArithmeticDone ==
    section_length = None /\ section_time = None /\ leader_time = None /\ total_time = None
IntAtLeastOne(n) == n.int /\ n.val[1] >= n.val[2]
TwoToMantBits == R(Pow2(MantBits))

\* C1: ascent_time raises ValueError exactly when n_cavers is not an int or
\* is below 1, whatever the other arguments; it raises before any of its
\* arithmetic has run and returns no time; an int n_cavers >= 1 never raises.
C1_ValueErrorIffInvalidCavers ==
    fn = "ascent_time" =>
        /\ ~IntAtLeastOne(args.n_cavers) => NoArithmeticDone /\ outcome # "returned"
        /\ ~IntAtLeastOne(args.n_cavers) /\ pc = "done" =>
               outcome = "ValueError" /\ raised_by = "ascent_time"
        /\ IntAtLeastOne(args.n_cavers) => outcome # "ValueError"
        /\ IntAtLeastOne(args.n_cavers) /\ pc = "done" => Returned /\ total_time # None

C1_Witness ==
    /\ fn = "ascent_time" /\ pc = "done" /\ outcome = "ValueError"
    /\ args.n_cavers = PyFloat(<<5, 2>>)

\* The calls of ascent_time that returned on the documented domain.
C2_Domain ==
    /\ fn = "ascent_time" /\ Returned
    /\ RLt(R(0), args.rope_length) /\ RLt(R(0), args.ascent_speed)
    /\ RLe(R(0), args.transition_time)
C2_SectionTime ==
    FAdd(FDiv(FDiv(args.rope_length, R(args.n_rebelays + 1)), args.ascent_speed),
         args.transition_time)
C2_Formula ==
    FAdd(FMul(C2_SectionTime, R(args.n_rebelays + 1)),
         FMul(C2_SectionTime, RSub(args.n_cavers.val, R(1))))
C2_ClosedForm ==
    FMul(FAdd(FDiv(args.rope_length, args.ascent_speed), args.transition_time),
         args.n_cavers.val)
C2_IsExample ==
    /\ args.rope_length = R(100) /\ args.n_cavers = PyInt(4) /\ args.n_rebelays = 3
    /\ args.ascent_speed = R(7) /\ args.transition_time = R(2)

\* C2 as stated: the result is sectionTime*(rebelayCount+1) + sectionTime*(caverCount-1),
\* with rebelayCount = 0 it equals (ropeLength/speed + transitionTime)*caverCount
\* exactly, and the call (100, 4, 3, 7, 2) gives 39.
C2_Original ==
    C2_Domain =>
        /\ total_time = C2_Formula
        /\ args.n_rebelays = 0 => total_time = C2_ClosedForm
        /\ C2_IsExample => total_time = R(39)

\* C2 amended: the result is sectionTime*(rebelayCount+1) + sectionTime*(caverCount-1)
\* as evaluated in floating point; with rebelayCount = 0 it equals
\* (ropeLength/speed + transitionTime)*caverCount up to rounding (relative
\* difference at most 4 * 2^-MantBits), not bit for bit; (100, 4, 3, 7, 2) gives 39.
C2_FormulaUpToRounding ==
    C2_Domain =>
        /\ total_time = C2_Formula
        /\ args.n_rebelays = 0 =>
               RLe(RMul(RAbs(RSub(total_time, C2_ClosedForm)), TwoToMantBits),
                   RMul(R(4), C2_ClosedForm))
        /\ C2_IsExample => total_time = R(39)

C2_Witness ==
    C2_Domain /\ args.n_rebelays = 0 /\ total_time # C2_ClosedForm

\* The same call with one more caver.
C3_OneMoreCaver ==
    ascent_time(args.rope_length, PyInt(args.n_cavers.val[1] + 1), args.n_rebelays,
                args.ascent_speed, args.transition_time).value

\* C3 as stated: for every ropeLength, speed and transitionTime the function
\* accepts, the result does not decrease when caverCount grows by one.
C3_Original ==
    fn = "ascent_time" /\ Returned => RLe(total_time, C3_OneMoreCaver)

\* C3 amended: for ropeLength > 0, speed > 0 and transitionTime >= 0 the
\* result does not decrease when caverCount grows by one.
C3_MonotoneOnDomain ==
    C2_Domain => RLe(total_time, C3_OneMoreCaver)

C3_Witness ==
    C2_Domain /\ args.n_rebelays > 0 /\ RLt(total_time, C3_OneMoreCaver)

\* C4 as stated: optimum_rebelay returns a length strictly between 0 and
\* rope_length, n_cavers = 1 included.
C4_Original ==
    fn = "optimum_rebelay" /\ Returned =>
        /\ RLt(R(0), optimum_rebelay_length)
        /\ RLt(optimum_rebelay_length, args.rope_length)

\* v is x rounded to one decimal and stored as a float.
C4_RoundedFrom(v, x) ==
    RLe(RAbs(RSub(v, x)),
        RAdd(<<1, 20>>, RDiv(RAdd(RAbs(x), <<1, 20>>), TwoToMantBits)))

\* C4 amended: optimum_rebelay returns, rounded to one decimal, a point x of
\* the dense grid with rope_length / max_number_rebelays <= x <= rope_length:
\* x is above 0, and rope_length itself can be returned (n_cavers = 1).
C4_WithinSampledRange ==
    fn = "optimum_rebelay" /\ Returned =>
        \E j \in 1 .. Len(x_new) :
            /\ C4_RoundedFrom(optimum_rebelay_length, x_new[j])
            /\ RLt(R(0), x_new[j])
            /\ RLe(FDiv(args.rope_length, R(args.max_number_rebelays)), x_new[j])
            /\ RLe(x_new[j], args.rope_length)

C4_Witness ==
    /\ fn = "optimum_rebelay" /\ Returned
    /\ args.n_cavers = PyInt(1) /\ optimum_rebelay_length = args.rope_length

\* C5: with ascent_speed = descent_speed, optimum_rebelay_both_ways ends as
\* optimum_rebelay does at that speed (same length, or the same exception),
\* and each of its samples is twice the single-direction sample.
C5_SameAsOneWay ==
    fn = "optimum_rebelay_both_ways" /\ pc = "done"
    /\ args.ascent_speed = args.descent_speed =>
        /\ \A k \in 1 .. Len(ascent_times) :
               ascent_times[k] = RMul(R(2), SampleOneWay(args, k - 1).value)
        /\ optimum_rebelay(args).raised = (outcome # "returned")
        /\ optimum_rebelay(args).by = raised_by
        /\ optimum_rebelay(args).value = optimum_rebelay_length

C5_Witness ==
    /\ fn = "optimum_rebelay_both_ways" /\ Returned
    /\ args.ascent_speed = args.descent_speed
    /\ args.n_cavers = PyInt(2) /\ Len(ascent_times) > FitMinPoints

\* C6: with max_number_rebelays <= 0 both optimizers fail with an error they
\* raise themselves, interp1d never being called.
C6_EmptySweepRejected ==
    fn \in Optimizers /\ pc = "done" /\ args.max_number_rebelays <= 0 =>
        /\ outcome = "ValueError" /\ raised_by = fn
        /\ interp_calls = <<>>

\* C7: with fewer samples than the cubic fit needs both optimizers fail with
\* InsufficientSamples before the fit; interp1d is never called with fewer
\* than FitMinPoints points.
C7_TooFewSamplesRejected ==
    fn \in Optimizers =>
        /\ \A i \in 1 .. Len(interp_calls) : Len(interp_calls[i].x) >= FitMinPoints
        /\ pc = "done" /\ IntAtLeastOne(args.n_cavers)
           /\ args.max_number_rebelays \in 1 .. (FitMinPoints - 1) =>
               outcome = "InsufficientSamples" /\ raised_by = fn

\* The k-th sample time (k from 1) the claim names.
C8_Time(k) ==
    IF fn = "optimum_rebelay"
    THEN ascent_time(args.rope_length, args.n_cavers, k - 1, args.ascent_speed,
                     args.transition_time).value
    ELSE FAdd(ascent_time(args.rope_length, args.n_cavers, k - 1, args.ascent_speed,
                          args.transition_time).value,
              ascent_time(args.rope_length, args.n_cavers, k - 1, args.descent_speed,
                          args.transition_time).value)

\* C8: for max_number_rebelays >= 1 and a valid n_cavers the sweep appends,
\* for n_rebelays = 0, 1, ... in that order, rope_length / (n_rebelays + 1) and
\* the time (the sum of both directions in the combined variant) to two lists
\* of equal length, and has collected max_number_rebelays samples when it ends.
C8_SweepSamples ==
    fn \in Optimizers /\ IntAtLeastOne(args.n_cavers) /\ args.max_number_rebelays >= 1 =>
        /\ Len(rebelay_lengths) = Len(ascent_times)
        /\ Len(rebelay_lengths) <= args.max_number_rebelays
        /\ pc # "sweep" => Len(rebelay_lengths) = args.max_number_rebelays
        /\ \A k \in 1 .. Len(rebelay_lengths) :
               /\ rebelay_lengths[k] = FDiv(args.rope_length, R(k))
               /\ ascent_times[k] = C8_Time(k)

C8_Witness ==
    /\ fn = "optimum_rebelay_both_ways" /\ pc = "linspace"
    /\ args.ascent_speed # args.descent_speed
    /\ Len(ascent_times) > FitMinPoints

StrictlyAscending(xs) == \A k \in 1 .. Len(xs) - 1 : RLt(xs[k], xs[k + 1])
StrictlyDescending(xs) == \A k \in 1 .. Len(xs) - 1 : RLt(xs[k + 1], xs[k])

\* C9 as stated: the lengths handed to interp1d are strictly ascending.
C9_Original ==
    fn \in Optimizers =>
        \A i \in 1 .. Len(interp_calls) : StrictlyAscending(interp_calls[i].x)

\* C9 amended: the lengths handed to interp1d are strictly descending (the
\* sweep's order), each time at the index of its length; interp1d itself
\* sorts them, so the fitted curve's points are strictly ascending in x, each
\* time carried along with its length.
C9_DescendingThenSorted ==
    fn \in Optimizers =>
        \A i \in 1 .. Len(interp_calls) :
            LET c == interp_calls[i]
                N == Len(c.x)
            IN  /\ StrictlyDescending(c.x)
                /\ Len(c.y) = N
                /\ f # None =>
                       /\ Len(f.x) = N /\ Len(f.y) = N
                       /\ StrictlyAscending(f.x)
                       /\ \A k \in 1 .. N :
                              f.x[k] = c.x[N + 1 - k] /\ f.y[k] = c.y[N + 1 - k]

C9_Witness ==
    /\ fn \in Optimizers /\ pc = "linspace" /\ f # None
    /\ Len(interp_calls) = 1 /\ Len(f.x) > FitMinPoints

\* C10: every optimizer call of plot_optimum_rebelay_length_both_ways is made
\* with the caller's transition_time and max_rebelays.
C10_CallerParametersUsed ==
    fn = "plot_optimum_rebelay_length_both_ways" =>
        \A i \in 1 .. Len(calls) :
            /\ calls[i].transition_time = args.transition_time
            /\ calls[i].max_number_rebelays = args.max_rebelays

====
